---- MODULE Spec2Model ----
(***************************************************************************)
(* A model of @reach/radio-group (packages/radio-group/src/index.tsx):     *)
(* one RadioGroup with its Radio children, after the children have         *)
(* registered as descendants.  The state is the group's props and hooks,   *)
(* the registered descendants, the document's focused element, and a log   *)
(* of what the handling of the last event called.                          *)
(***************************************************************************)
EXTENDS Integers, Sequences, FiniteSets

VARIABLES
    descendants,            \* useDescendants(): <<[index, disabled]>>, in document order
    isControlled,           \* useRef(wasControlled).current
    controlledIndex,        \* the `index` prop of the last render
    internalSelectedIndex,  \* useState(defaultIndex)
    onChange,               \* whether the `onChange` prop is supplied
    callerHandlers,         \* whether the Radios are given onClick / onKeyDown props
    activeElement,          \* ordinal of the focused Radio, or NoFocus
    event,                  \* the last event handled
    calls,                  \* what handling that event called, in order
    warned,                 \* whether the last render emitted the mode warning
    __DEV__,                \* whether the build is a development build
    threw                   \* whether handling the last event threw

vars == <<descendants, isControlled, controlledIndex, internalSelectedIndex,
          onChange, callerHandlers, activeElement, event, calls, warned,
          __DEV__, threw>>

\* ------------------------------------------------------------------ bounds
MaxMembers == 3

\* ------------------------------------------------------- values of the code
\* `number | null` and an absent prop: null and undefined are kept apart
\* from every ordinal.
null == -8
undefined == -9

\* No Radio of the group holds the focus.
NoFocus == -1

NextKeys == {"ArrowDown", "ArrowRight"}
PreviousKeys == {"ArrowUp", "ArrowLeft"}
FirstKeys == {"Home"}
LastKeys == {"End"}
NavigationKeys == NextKeys \cup PreviousKeys \cup FirstKeys \cup LastKeys
Keys == NavigationKeys \cup {" ", "Enter"}

Ordinals == 0 .. (Len(descendants) - 1)

Call(op, arg) == [op |-> op, arg |-> arg]

\* ------------------------------------------------------------- RadioGroup
\* const wasControlled = controlledIndex !== undefined;
wasControlled == controlledIndex # undefined

ControlModeRecomputed(current, supplied) == supplied

\* const { current: isControlled } = useRef(wasControlled): the ref keeps the
\* value of the first render, whatever later renders supply.
ControlMode(current, supplied) == current

\* selectedIndex: isControlled ? controlledIndex! : internalSelectedIndex
selectedIndex ==
    IF isControlled THEN controlledIndex ELSE internalSelectedIndex

\* An event, with the selectedIndex of the render whose handlers receive it.
Event(type, target, key) ==
    [type |-> type, target |-> target, key |-> key, selectedIndex |-> selectedIndex]

\* if (__DEV__) { warning(!(!isControlled && wasControlled), ...);
\* warning(!(isControlled && !wasControlled), ...) }: whether a render of
\* this build warns.
Warning(controlled, supplied) ==
    __DEV__ /\ ((~controlled /\ supplied) \/ (controlled /\ ~supplied))

StoresSelectionAlways == TRUE

StoresSelectionInverted == isControlled

\* if (!isControlled) setInternalSelectedIndex(index)
StoresSelection == ~isControlled

\* ------------------------------------------------------------------ Radio
disabled(index) == descendants[index + 1].disabled

isInitialAnyOrdinal(index) == selectedIndex = null /\ ~disabled(index)

\* const isInitial = selectedIndex === null && index === 0 && !disabled;
isInitial(index) == selectedIndex = null /\ index = 0 /\ ~disabled(index)

isSelectedUpTo(index) == selectedIndex # null /\ index <= selectedIndex

\* const isSelected = index === selectedIndex;
isSelected(index) == index = selectedIndex

tabIndexInverted(index) ==
    IF isInitial(index) THEN 0 ELSE IF index = selectedIndex THEN -1 ELSE 0

\* tabIndex={isInitial ? 0 : index === selectedIndex ? 0 : -1}
tabIndex(index) ==
    IF isInitial(index) THEN 0 ELSE IF index = selectedIndex THEN 0 ELSE -1

TabStops == {m \in Ordinals : tabIndex(m) = 0}

\* filter: (radio) => !radio.disabled
filter(radio) == ~radio.disabled

\* --------------------------------------------- roving keyboard navigation
\* useDescendantKeyDown of @reach/descendants with currentIndex:
\* selectedIndex, orientation: "both", key: "index" and the filter above.
selectableDescendants == SelectSeq(descendants, filter)

\* Array.prototype.findIndex over the selectable descendants, zero-based.
findIndex(items, ordinal) ==
    IF \E k \in 1 .. Len(items) : items[k].index = ordinal
    THEN (CHOOSE k \in 1 .. Len(items) : items[k].index = ordinal) - 1
    ELSE -1

currentPosition == findIndex(selectableDescendants, selectedIndex)

\* The remainder of JavaScript's %, for a positive divisor.
Rem(a, b) == IF a >= 0 THEN a % b ELSE 0 - ((0 - a) % b)

getFirstOption == selectableDescendants[1]

getLastOption == selectableDescendants[Len(selectableDescendants)]

getNextOption ==
    LET n == Len(selectableDescendants)
    IN IF currentPosition = n - 1
       THEN getFirstOption
       ELSE selectableDescendants[Rem(currentPosition + 1, n) + 1]

getPreviousOption ==
    LET n == Len(selectableDescendants)
    IN IF currentPosition = 0
       THEN getLastOption
       ELSE selectableDescendants[Rem(currentPosition - 1 + n, n) + 1]

\* The descendant the key moves to (selectableDescendants is not empty).
NavigationTarget(key) ==
    IF key \in NextKeys THEN getNextOption.index
    ELSE IF key \in PreviousKeys THEN getPreviousOption.index
    ELSE IF key \in FirstKeys THEN getFirstOption.index
    ELSE getLastOption.index

\* wrapEvent(theirHandler, ourHandler): the caller's handler runs first.
wrapEvent(handler, target) ==
    IF callerHandlers THEN <<Call(handler, target)>> ELSE <<>>

\* ------------------------------------------------------------- operations
onSelectStoreFirst(index, focusBefore, pre) ==
    LET entered == pre \o <<Call("onSelect", index)>>
        changed == IF onChange
                   THEN entered \o <<Call("onChange", index)>>
                   ELSE entered
    IN IF index \in Ordinals
       THEN /\ activeElement' = index
            /\ internalSelectedIndex' =
                   IF StoresSelection THEN index ELSE internalSelectedIndex
            /\ calls' = changed
                   \o (IF StoresSelection
                       THEN <<Call("setInternalSelectedIndex", index)>>
                       ELSE <<>>)
                   \o <<Call("focus", index)>>
            /\ threw' = FALSE
       ELSE /\ activeElement' = focusBefore
            /\ internalSelectedIndex' = internalSelectedIndex
            /\ calls' = changed \o <<Call("TypeError", index)>>
            /\ threw' = TRUE

\* function onSelect(index): onChange?.(index); descendants[index].element?.focus();
\* if (!isControlled) setInternalSelectedIndex(index).  descendants[index] is
\* undefined outside the membership, and reading .element of it throws.
onSelect(index, focusBefore, pre) ==
    LET entered == pre \o <<Call("onSelect", index)>>
        changed == IF onChange
                   THEN entered \o <<Call("onChange", index)>>
                   ELSE entered
    IN IF index \in Ordinals
       THEN /\ activeElement' = index
            /\ internalSelectedIndex' =
                   IF StoresSelection THEN index ELSE internalSelectedIndex
            /\ calls' = changed \o <<Call("focus", index)>>
                   \o (IF StoresSelection
                       THEN <<Call("setInternalSelectedIndex", index)>>
                       ELSE <<>>)
            /\ threw' = FALSE
       ELSE /\ activeElement' = focusBefore
            /\ internalSelectedIndex' = internalSelectedIndex
            /\ calls' = changed \o <<Call("TypeError", index)>>
            /\ threw' = TRUE

callbackAlwaysNext(handler, index) == index + 1

\* callback(index) { onSelect(isInitial ? index + 1 : index) } of the Radio
\* `handler`: the ordinal it passes to onSelect.
callback(handler, index) == IF isInitial(handler) THEN index + 1 ELSE index

\* function handleClick() { onSelect(index) }: the ordinal it selects.
handleClick(index) == index

ClickWithoutCallerHandler(m) ==
    /\ m \in Ordinals
    /\ event' = Event("click", m, "")
    /\ onSelect(handleClick(m), m, <<>>)
    /\ UNCHANGED <<__DEV__, descendants, isControlled, controlledIndex, onChange,
                   callerHandlers, warned>>

\* onClick={wrapEvent(onClick, handleClick)}; the browser has focused the
\* clicked element before the click event is dispatched.
Click(m) ==
    /\ m \in Ordinals
    /\ event' = Event("click", m, "")
    /\ onSelect(handleClick(m), m, wrapEvent("onClick", m))
    /\ UNCHANGED <<__DEV__, descendants, isControlled, controlledIndex, onChange,
                   callerHandlers, warned>>

\* onKeyDown={wrapEvent(onKeyDown, handleKeyDown)} on the focused Radio:
\* if (e.key === " " && !isSelected) onSelect(index); descendantKeyDown(e),
\* which on a navigation key calls callback with the ordinal it moves to.
KeyDown(key) ==
    LET m == activeElement
        pre == wrapEvent("onKeyDown", m)
    IN /\ m \in Ordinals
       /\ key \in Keys
       /\ event' = Event("keydown", m, key)
       /\ IF key = " " /\ ~isSelected(m)
          THEN onSelect(m, m, pre)
          ELSE IF key \in NavigationKeys /\ Len(selectableDescendants) > 0
          THEN onSelect(callback(m, NavigationTarget(key)), m,
                        pre \o <<Call("callback", NavigationTarget(key))>>)
          ELSE /\ calls' = pre
               /\ threw' = FALSE
               /\ UNCHANGED <<activeElement, internalSelectedIndex>>
       /\ UNCHANGED <<__DEV__, descendants, isControlled, controlledIndex, onChange,
                      callerHandlers, warned>>

\* The caller renders the group again with an `index` prop.
Rerender(index) ==
    /\ index \in {undefined, null} \cup Ordinals
    /\ controlledIndex' = index
    /\ isControlled' = ControlMode(isControlled, index # undefined)
    /\ warned' = Warning(isControlled', index # undefined)
    /\ UNCHANGED <<__DEV__, descendants, internalSelectedIndex, onChange,
                   callerHandlers, activeElement>>
    /\ event' = [Event("render", NoFocus, "") EXCEPT !.selectedIndex = selectedIndex']
    /\ calls' = <<>>
    /\ threw' = FALSE

\* The Tab key moves the focus into the group, to the Radio with tabIndex 0.
TabInto(m) ==
    /\ m \in TabStops
    /\ activeElement' = m
    /\ event' = Event("tab", m, "")
    /\ calls' = <<>>
    /\ threw' = FALSE
    /\ UNCHANGED <<__DEV__, descendants, isControlled, controlledIndex,
                   internalSelectedIndex, onChange, callerHandlers, warned>>

\* The focus leaves the group.
Blur ==
    /\ activeElement # NoFocus
    /\ activeElement' = NoFocus
    /\ event' = Event("blur", NoFocus, "")
    /\ calls' = <<>>
    /\ threw' = FALSE
    /\ UNCHANGED <<__DEV__, descendants, isControlled, controlledIndex,
                   internalSelectedIndex, onChange, callerHandlers, warned>>

\* The first render and the registration of the Radios: index is the
\* `index` prop (undefined when absent), defaultIndex the `defaultIndex`
\* prop (null when absent, and with a controlled index).
Init ==
    \E n \in 1 .. MaxMembers :
    \E flags \in [1 .. n -> BOOLEAN] :
    \E index \in {undefined, null} \cup (0 .. n - 1) :
    \E defaultIndex \in {null} \cup (0 .. n - 1) :
        /\ (index # undefined => defaultIndex = null)
        /\ descendants = [k \in 1 .. n |-> [index |-> k - 1, disabled |-> flags[k]]]
        /\ controlledIndex = index
        /\ isControlled = (index # undefined)
        /\ internalSelectedIndex = defaultIndex
        /\ onChange \in BOOLEAN
        /\ callerHandlers \in BOOLEAN
        /\ activeElement = NoFocus
        /\ event = Event("mount", NoFocus, "")
        /\ calls = <<>>
        /\ __DEV__ \in BOOLEAN
        /\ warned = FALSE
        /\ threw = FALSE

Next ==
    \/ \E m \in Ordinals : Click(m)
    \/ \E key \in Keys : KeyDown(key)
    \/ \E index \in {undefined, null} \cup Ordinals : Rerender(index)
    \/ \E m \in Ordinals : TabInto(m)
    \/ Blur

Spec == Init /\ [][Next]_vars

\* ------------------------------------------------------------- properties
Enabled == {m \in Ordinals : ~disabled(m)}

FirstEnabled == CHOOSE m \in Enabled : \A k \in Enabled : m <= k

LastEnabled == CHOOSE m \in Enabled : \A k \in Enabled : k <= m

Called(op, arg) == \E k \in 1 .. Len(calls) : calls[k] = Call(op, arg)

CalledOp(op) == \E k \in 1 .. Len(calls) : calls[k].op = op

\* C1: in every reachable state of a Group at most one Member has
\* isSelected true.
AtMostOneSelected == Cardinality({m \in Ordinals : isSelected(m)}) <= 1

\* C1 witness: a click has selected the second of several Members.
AtMostOneSelectedWitness ==
    /\ Len(descendants) >= 2
    /\ event.type = "click"
    /\ event.target = 1
    /\ isSelected(1)

\* C2: a click on a disabled Member leaves selectedIndex unchanged and does
\* not invoke select; a click on an enabled Member invokes select(ownOrdinal).
ClickOnDisabledIsIgnored ==
    event.type = "click" =>
        IF disabled(event.target)
        THEN selectedIndex = event.selectedIndex /\ ~CalledOp("onSelect")
        ELSE Called("onSelect", event.target)

\* C3: the Member that receives selection and focus from a navigation key
\* is never a disabled Member; with Members [A enabled, B disabled,
\* C enabled], "next" from A lands on C.
NavigationSkipsDisabled ==
    (event.type = "keydown" /\ event.key \in NavigationKeys) =>
        /\ \A k \in 1 .. Len(calls) :
               calls[k].op \in {"focus", "setInternalSelectedIndex"}
                   => ~disabled(calls[k].arg)
        /\ ( /\ Len(descendants) = 3
             /\ Enabled = {0, 2}
             /\ event.selectedIndex = 0
             /\ event.key \in NextKeys ) => Called("focus", 2)

\* C4: in an uncontrolled Group, "next" from the last enabled Member selects
\* the first enabled Member, and "previous" from the first enabled Member
\* selects the last enabled Member.
NavigationWraps ==
    (~isControlled /\ event.type = "keydown" /\ Enabled # {}) =>
        /\ (event.key \in NextKeys /\ event.selectedIndex = LastEnabled)
               => selectedIndex = FirstEnabled /\ activeElement = FirstEnabled
        /\ (event.key \in PreviousKeys /\ event.selectedIndex = FirstEnabled)
               => selectedIndex = LastEnabled /\ activeElement = LastEnabled

\* C4 witness: "next" pressed with the last of several enabled Members
\* selected has moved the selection to the first enabled Member.
NavigationWrapsWitness ==
    /\ ~isControlled
    /\ event.type = "keydown"
    /\ event.key \in NextKeys
    /\ Cardinality(Enabled) >= 2
    /\ event.selectedIndex = LastEnabled
    /\ selectedIndex = FirstEnabled
    /\ selectedIndex # event.selectedIndex

\* C5: in a controlled Group with an onChange callback, activating Member i
\* invokes onChange(i), and selectedIndex stays the caller-supplied index:
\* select stores no selection, only a render with another index changes it.
ControlledSelectionIsCallers ==
    isControlled =>
        /\ selectedIndex = controlledIndex
        /\ event.type \in {"click", "keydown"} =>
               /\ selectedIndex = event.selectedIndex
               /\ ~CalledOp("setInternalSelectedIndex")
        /\ (event.type = "click" /\ onChange) => Called("onChange", event.target)
        /\ (event.type = "keydown" /\ event.key = " " /\ onChange
                /\ event.target # event.selectedIndex)
               => Called("onChange", event.target)

\* C5 witness: a controlled Group with index 1 whose Member 0 was clicked:
\* onChange(0) was invoked and selectedIndex is still 1.
ControlledSelectionIsCallersWitness ==
    /\ isControlled
    /\ onChange
    /\ controlledIndex = 1
    /\ event.type = "click"
    /\ event.target = 0
    /\ Called("onChange", 0)
    /\ selectedIndex = 1

\* C6: in an uncontrolled Group a click on an enabled Member i results in
\* selectedIndex = i, isSelected true for Member i only, and focus on i.
ClickSelectsAndFocuses ==
    (~isControlled /\ event.type = "click" /\ ~disabled(event.target)) =>
        /\ selectedIndex = event.target
        /\ \A m \in Ordinals : isSelected(m) <=> m = event.target
        /\ activeElement = event.target
        /\ Called("focus", event.target)

\* C6 witness: the third of three Members was clicked while nothing was
\* selected, and is now the selected and focused Member.
ClickSelectsAndFocusesWitness ==
    /\ ~isControlled
    /\ Len(descendants) = 3
    /\ event.type = "click"
    /\ event.target = 2
    /\ ~disabled(2)
    /\ event.selectedIndex = null
    /\ selectedIndex = 2
    /\ activeElement = 2

\* C7 as stated: the control mode never changes after the first render; a
\* render whose index prop is defined in an uncontrolled Group, or undefined
\* in a controlled one, emits the warning; an uncontrolled Group keeps
\* taking selectedIndex from its stored selection and keeps updating it on
\* select, whatever index is supplied.
ControlModeIsFixedAndWarns ==
    [][ /\ isControlled' = isControlled
        /\ event'.type = "render" =>
               warned' = (isControlled # (controlledIndex' # undefined))
        /\ ~isControlled =>
               /\ selectedIndex' = internalSelectedIndex'
               /\ event'.type = "render" => selectedIndex' = selectedIndex
               /\ event'.type = "click" => selectedIndex' = event'.target
      ]_vars

\* C7 amended: as stated, but the warning is emitted on such a render in a
\* development build (__DEV__) only; a production build emits none.
ControlModeIsFixed ==
    [][ /\ isControlled' = isControlled
        /\ event'.type = "render" =>
               warned' = (__DEV__ /\ isControlled # (controlledIndex' # undefined))
        /\ ~isControlled =>
               /\ selectedIndex' = internalSelectedIndex'
               /\ event'.type = "render" => selectedIndex' = selectedIndex
               /\ event'.type = "click" => selectedIndex' = event'.target
      ]_vars

\* C7 witness: an uncontrolled Group of a development build was rendered
\* with an index, warned, and a click then selected another Member than the
\* supplied index.
ControlModeIsFixedWitness ==
    /\ __DEV__
    /\ ~isControlled
    /\ controlledIndex \in Ordinals
    /\ warned
    /\ event.type = "click"
    /\ selectedIndex = event.target
    /\ selectedIndex # controlledIndex
    /\ selectedIndex # event.selectedIndex

\* C8: in every reachable state exactly one Member has tabIndex 0 and every
\* other Member has tabIndex -1, a Member being a tab stop iff it is
\* selected or it is the initial Member.
ExactlyOneTabStop ==
    /\ Cardinality(TabStops) = 1
    /\ \A m \in Ordinals :
           /\ tabIndex(m) \in {0, -1}
           /\ tabIndex(m) = 0 <=> (isSelected(m) \/ isInitial(m))

\* C9: with no selection and a first Member that is not disabled, the first
\* Member is the only Member with tabIndex 0 and no Member is selected.
InitialMemberIsSoleTabStop ==
    (selectedIndex = null /\ ~disabled(0)) =>
        /\ TabStops = {0}
        /\ \A m \in Ordinals : tabIndex(m) = (IF m = 0 THEN 0 ELSE -1)
        /\ \A m \in Ordinals : ~isSelected(m)

\* C9 witness: nothing is selected in a Group of several enabled Members,
\* and the Tab key has moved the focus to the first Member.
InitialMemberIsSoleTabStopWitness ==
    /\ selectedIndex = null
    /\ Len(descendants) >= 2
    /\ Enabled = Ordinals
    /\ event.type = "tab"
    /\ activeElement = 0

\* C10: a selection request for an ordinal outside the membership is a
\* no-op: selectedIndex and focus are unchanged and no fault is raised; no
\* sequence of clicks and key presses leads to a crash.
OutOfRangeSelectIsNoOp ==
    /\ ~threw
    /\ \A k \in 1 .. Len(calls) :
           (calls[k].op = "onSelect" /\ calls[k].arg \notin Ordinals) =>
               /\ selectedIndex = event.selectedIndex
               /\ activeElement = event.target

\* The Radio that handled the last event was the initial Radio of its render.
HandlerWasInitial ==
    /\ event.selectedIndex = null
    /\ event.target = 0
    /\ ~disabled(0)

\* C11: when a navigation key is handled by a Member that is not the
\* initial Member, selection moves to the navigation target; when nothing
\* is selected and the initial Member handles it, selection moves to
\* ordinal 1, for every navigation key.
NavigationSelectsTargetOrSecond ==
    (event.type = "keydown" /\ event.key \in NavigationKeys) =>
        \A k \in 1 .. Len(calls) :
            calls[k].op = "callback" =>
                LET chosen == IF HandlerWasInitial THEN 1 ELSE calls[k].arg
                IN /\ Called("onSelect", chosen)
                   /\ (~isControlled /\ chosen \in Ordinals) => selectedIndex = chosen

\* The positions of the log at which onSelect was entered.
Selects == {k \in 1 .. Len(calls) : calls[k].op = "onSelect"}

\* What the select entered at position k of the log did, in order.
StepsOf(k) == SubSeq(calls, k + 1, Len(calls))

Optional(present, call) == IF present THEN <<call>> ELSE <<>>

\* C12 as stated: select(index) invokes the change callback, if present,
\* then, if the Group is uncontrolled, updates the stored selection, then
\* moves the focus to the Member at index.
SelectStoresThenFocuses ==
    \A k \in Selects :
        LET index == calls[k].arg
        IN StepsOf(k) =
               Optional(onChange, Call("onChange", index))
               \o Optional(~isControlled, Call("setInternalSelectedIndex", index))
               \o <<Call("focus", index)>>

\* C12 amended: select(index) invokes the change callback, if present, then
\* moves the focus to the Member at index, then, if the Group is
\* uncontrolled, updates the stored selection; for an index outside the
\* membership the focus step throws and nothing is focused or stored.
SelectFocusesThenStores ==
    \A k \in Selects :
        LET index == calls[k].arg
        IN StepsOf(k) =
               Optional(onChange, Call("onChange", index))
               \o (IF index \in Ordinals
                   THEN <<Call("focus", index)>>
                        \o Optional(~isControlled,
                                    Call("setInternalSelectedIndex", index))
                   ELSE <<Call("TypeError", index)>>)

\* C12 witness: a select in an uncontrolled Group with an onChange callback
\* has run all three steps.
SelectFocusesThenStoresWitness ==
    /\ ~isControlled
    /\ onChange
    /\ event.type = "click"
    /\ event.target = 1
    /\ \E k \in Selects :
           StepsOf(k) = << Call("onChange", 1), Call("focus", 1),
                           Call("setInternalSelectedIndex", 1) >>

\* The name of the caller's handler for the last event.
CallerHandler == IF event.type = "click" THEN "onClick" ELSE "onKeyDown"

\* C13: for every click and key-down on a Member with a caller-supplied
\* handler, the caller's handler runs, once, before any internal handling
\* (callback, select, onChange, focus move, stored update or fault) of
\* that event.
CallerHandlerRunsFirst ==
    (event.type \in {"click", "keydown"} /\ callerHandlers) =>
        /\ Len(calls) >= 1
        /\ calls[1] = Call(CallerHandler, event.target)
        /\ \A k \in 2 .. Len(calls) : calls[k].op \notin {"onClick", "onKeyDown"}

\* C13 witness: a click whose internal handling selected a Member after
\* the caller's handler had run.
CallerHandlerRunsFirstWitness ==
    /\ callerHandlers
    /\ onChange
    /\ event.type = "click"
    /\ calls[1] = Call("onClick", event.target)
    /\ calls[2] = Call("onSelect", event.target)
    /\ Called("onChange", event.target)
    /\ Called("focus", event.target)

\* C14: the Space key on a Member invokes select(ownOrdinal) exactly when
\* that Member is enabled and not selected; on a selected or a disabled
\* Member it invokes neither select nor onChange and leaves selectedIndex
\* unchanged.
SpaceSelectsEnabledUnselected ==
    (event.type = "keydown" /\ event.key = " ") =>
        IF ~disabled(event.target) /\ event.target # event.selectedIndex
        THEN Called("onSelect", event.target)
        ELSE /\ ~CalledOp("onSelect")
             /\ ~CalledOp("onChange")
             /\ selectedIndex = event.selectedIndex

\* C15: in an uncontrolled Group, once selectedIndex is a number it is a
\* number in every later state, and selectedIndex is null only before the
\* first select: after an event that invoked select it is a number.
NoDeselect ==
    [][ ~isControlled =>
            /\ selectedIndex # null => selectedIndex' # null
            /\ (\E k \in 1 .. Len(calls') : calls'[k].op = "onSelect")
                   => selectedIndex' # null
      ]_vars

\* C16: in an uncontrolled Group, after a select(i) with i inside the
\* membership and the render that follows it, the focused Member is the
\* selected Member and is the only Member with tabIndex 0.
FocusSelectionAndTabStopCoincide ==
    ~isControlled =>
        \A k \in Selects :
            calls[k].arg \in Ordinals =>
                /\ activeElement = calls[k].arg
                /\ selectedIndex = calls[k].arg
                /\ isSelected(activeElement)
                /\ TabStops = {activeElement}
                /\ \A m \in Ordinals \ {activeElement} : tabIndex(m) = -1

\* C16 witness: a navigation key in an uncontrolled Group of three Members
\* has moved selection, focus and the tab stop from Member 0 to Member 2.
FocusSelectionAndTabStopCoincideWitness ==
    /\ ~isControlled
    /\ Len(descendants) = 3
    /\ event.type = "keydown"
    /\ event.key \in NavigationKeys
    /\ event.selectedIndex = 0
    /\ Called("onSelect", 2)
    /\ activeElement = 2
    /\ selectedIndex = 2
    /\ TabStops = {2}

\* C17: every select(i) invokes the onChange callback, when present, exactly
\* once and with argument i, also when Member i is already selected; in an
\* uncontrolled Group the value passed to onChange is the selectedIndex that
\* results from the select.
SelectNotifiesOnceWithResult ==
    onChange =>
        \A k \in Selects :
            /\ Cardinality({j \in 1 .. Len(calls) : calls[j].op = "onChange"}) = 1
            /\ Called("onChange", calls[k].arg)
            /\ ~isControlled => selectedIndex = calls[k].arg

====
